---- MODULE Spec2Model ----
(***************************************************************************)
(* State-machine model of src/app.py: the monitor thread (monitor_loop,    *)
(* check_website) and a request handler (get_status / index,               *)
(* calculate_uptime) sharing the module-level dictionaries status_history, *)
(* current_status and last_check_time without any lock.  Each action is    *)
(* one step a thread completes without the other thread running in         *)
(* between.                                                                *)
(***************************************************************************)
EXTENDS Integers, Sequences, FiniteSets, TLC

\* ------------------------------------------------------------ bounds ----
\* HISTORY_LENGTH stands for src/app.py:25 (20 in the program), scaled down
\* so that eviction happens before the clock stops.
HISTORY_LENGTH == 2
\* The monitor loop runs forever; the model stops it when the clock, which
\* advances at every datetime.now(), has reached MaxClock.
MaxClock == 9

\* ----------------------------------------------------- configuration ----
\* The first names of SITES, in the dictionary's insertion order.
SITES == <<"Self-Service", "Canvas">>

\* None, and datetime.isoformat(): an instant t is rendered as <<t>>.
None == <<>>
isoformat(t) == <<t>>
\* current_status.get(name, {}) default: the empty dictionary.
EmptyDict == [k \in {} |-> None]

\* ------------------------------------------------------------ prober ----
\* What session.get can do: return a response with a status code, or raise.
StatusCodes == {200, 204, 301, 302, 304, 403, 404, 500}
Exceptions == {"ReadTimeout", "ConnectionError", "SSLError"}
Response(c) == [kind |-> "response", status_code |-> c]
Raised(e) == [kind |-> "exception", exc |-> e]
Outcomes == {Response(c) : c \in StatusCodes} \cup {Raised(e) : e \in Exceptions}
\* The outcomes drawn while a reader runs next to the monitor thread.
CycleOutcomes == {Response(200), Raised("ReadTimeout")}
\* The outcomes drawn when the monitor thread runs several cycles alone.
MonitorOutcomes == {Response(200), Response(403), Response(404),
                    Raised("ReadTimeout")}
\* round((time.time() - start_time) * 1000) of a request that returned.
response_time == 7

\* `except Exception as e`: every exception session.get raises is caught.
CaughtOnlyTimeout(e) == e = "ReadTimeout"
Catches(e) ==
    e \in Exceptions

\* response.status_code in [200, 301, 302]
IsUpAny2xx3xx(c) == c \div 100 \in {2, 3}
IsUpCode(c) ==
    c \in {200, 301, 302}

\* The return value of check_website, or the exception it lets through.
Returned(v) == [returned |-> TRUE, value |-> v]
Propagated(e) == [returned |-> FALSE, exc |-> e]

check_website(outcome, now) ==
    IF outcome.kind = "response"
    THEN LET status == IF IsUpCode(outcome.status_code) THEN "up" ELSE "down"
         IN  IF outcome.status_code = 403
             THEN Returned([status |-> "down", time |-> response_time,
                            code |-> outcome.status_code,
                            error |-> "403 Forbidden (WAF Block)",
                            timestamp |-> isoformat(now)])
             ELSE Returned([status |-> status, time |-> response_time,
                            code |-> outcome.status_code,
                            timestamp |-> isoformat(now)])
    ELSE IF Catches(outcome.exc)
         THEN Returned([status |-> "down", time |-> 0,
                        error |-> outcome.exc, timestamp |-> isoformat(now)])
         ELSE Propagated(outcome.exc)

\* --------------------------------------------------------- the state ----
VARIABLES
    registry,         \* SITES as the process found it at start
    status_history,   \* dict name -> list of results (src/app.py:48)
    current_status,   \* dict name -> result (src/app.py:49)
    last_check_time,  \* None or the instant of the last completed cycle
    history_file,     \* contents of HISTORY_FILE on disk
    clock,            \* the instant datetime.now() last returned
    pc,               \* monitor_loop: the statement it is about to run
    idx,              \* monitor_loop: position of `name` in SITES
    result,           \* monitor_loop: the local variable `result`
    cycle,            \* number of cycles started
    recorded,         \* name -> number of results appended so far
    rpc,              \* get_status: the step it is about to run
    ridx,             \* get_status: position of `name` in SITES
    sites,            \* get_status: the entries of data['sites'] built so far
    e_current,        \* get_status: 'current' of the entry being built
    e_history,        \* get_status: 'history' of the entry being built
    u_seen,           \* calculate_uptime: the list as it was when bound
    u_i,              \* calculate_uptime: position of the generator
    u_count,          \* calculate_uptime: the running sum
    e_uptime,         \* get_status: 'uptime' of the entry being built
    r_last_check,     \* get_status: 'last_check'
    data              \* get_status: <<payload>> once returned, or None

schedVars == <<registry, status_history, current_status, last_check_time,
               history_file, clock, pc, idx, result, cycle, recorded>>
readVars == <<rpc, ridx, sites, e_current, e_history, u_seen, u_i, u_count,
              e_uptime, r_last_check, data>>
vars == <<registry, status_history, current_status, last_check_time,
          history_file, clock, pc, idx, result, cycle, recorded, rpc, ridx,
          sites, e_current,
          e_history, u_seen, u_i, u_count, e_uptime, r_last_check, data>>

\* dict.get(key, default)
Get(d, k, default) == IF k \in DOMAIN d THEN d[k] ELSE default
\* d[k] = v
Put(d, k, v) == [x \in DOMAIN d \cup {k} |-> IF x = k THEN v ELSE d[x]]
Last(s) == s[Len(s)]

\* `for name, url in SITES.items()`: the first statement of the loop body,
\* or the statement after the loop when there is nothing to iterate.
ForLoopStart(reg) == IF reg = <<>> THEN "set_time" ELSE "probe"
\* The comprehension of get_status over SITES.items(), likewise.
ComprehensionStart(reg) == IF reg = <<>> THEN "last_check" ELSE "current"

\* The state once the module is imported and the monitor thread started,
\* with SITES = reg.
InitWith(reg) ==
    /\ registry = reg
    /\ status_history = EmptyDict
    /\ current_status = EmptyDict
    /\ last_check_time = None
    /\ history_file = "absent"
    /\ clock = 0
    /\ pc = ForLoopStart(reg)
    /\ idx = 1
    /\ result = None
    /\ cycle = 1
    /\ recorded = EmptyDict
    /\ rpc = "idle"
    /\ ridx = 1
    /\ sites = <<>>
    /\ e_current = None
    /\ e_history = "default"
    /\ u_seen = <<>>
    /\ u_i = 0
    /\ u_count = 0
    /\ e_uptime = 0
    /\ r_last_check = None
    /\ data = None

Init == InitWith(SITES)

\* ------------------------------------------------------ monitor_loop ----
name == registry[idx]

\* `for name, url in SITES.items()` is exhausted after the last site.
BreaksAfterFirst(i) == TRUE
LoopExhausted(i) ==
    i = Len(registry)

\* len(status_history[name]) > HISTORY_LENGTH
TrimsLate(h) == Len(h) > HISTORY_LENGTH + 1
NeedsTrim(h) ==
    Len(h) > HISTORY_LENGTH

\* list.pop(0)
PopLast(h) == SubSeq(h, 1, Len(h) - 1)
Pop0(h) ==
    Tail(h)

\* result = check_website(name, url); an exception that escapes it is
\* caught by the loop's own except clause, which logs and goes to sleep.
Probe(outs, maxClock) ==
    /\ pc = "probe"
    /\ clock < maxClock
    /\ \E o \in outs :
         LET r == check_website(o, clock + 1)
         IN  IF r.returned
             THEN /\ result' = r.value
                  /\ pc' = "set_current"
             ELSE /\ result' = result
                  /\ pc' = "sleep"
    /\ clock' = clock + 1
    /\ UNCHANGED <<status_history, current_status, last_check_time,
                   history_file, idx, cycle>>
    /\ UNCHANGED <<registry, recorded>>
    /\ UNCHANGED readVars

\* current_status[name] = result
SetCurrent ==
    /\ pc = "set_current"
    /\ current_status' = Put(current_status, name, result)
    /\ pc' = IF name \in DOMAIN status_history THEN "append" ELSE "new_list"
    /\ UNCHANGED <<status_history, last_check_time, history_file, clock, idx,
                   result, cycle>>
    /\ UNCHANGED <<registry, recorded>>
    /\ UNCHANGED readVars

\* if name not in status_history: status_history[name] = []
NewList ==
    /\ pc = "new_list"
    /\ status_history' = Put(status_history, name, <<>>)
    /\ pc' = "append"
    /\ UNCHANGED <<current_status, last_check_time, history_file, clock, idx,
                   result, cycle>>
    /\ UNCHANGED <<registry, recorded>>
    /\ UNCHANGED readVars

\* status_history[name].append(result)
AppendResult ==
    /\ pc = "append"
    /\ status_history' = Put(status_history, name,
                             Append(status_history[name], result))
    /\ recorded' = Put(recorded, name, Get(recorded, name, 0) + 1)
    /\ pc' = "trim"
    /\ UNCHANGED <<current_status, last_check_time, history_file, clock, idx,
                   result, cycle>>
    /\ UNCHANGED registry
    /\ UNCHANGED readVars

\* if len(status_history[name]) > HISTORY_LENGTH: status_history[name].pop(0)
\* and the loop's step to the next site.
Trim ==
    /\ pc = "trim"
    /\ status_history' =
         IF NeedsTrim(status_history[name])
         THEN Put(status_history, name, Pop0(status_history[name]))
         ELSE status_history
    /\ IF LoopExhausted(idx)
       THEN pc' = "set_time" /\ idx' = idx
       ELSE pc' = "probe" /\ idx' = idx + 1
    /\ UNCHANGED <<current_status, last_check_time, history_file, clock,
                   result, cycle>>
    /\ UNCHANGED <<registry, recorded>>
    /\ UNCHANGED readVars

\* last_check_time = datetime.now(timezone.utc).isoformat()
SetLastCheckNoSleep(maxClock) ==
    /\ pc = "set_time"
    /\ clock < maxClock
    /\ clock' = clock + 1
    /\ last_check_time' = isoformat(clock + 1)
    /\ pc' = ForLoopStart(registry)
    /\ idx' = 1
    /\ cycle' = cycle + 1
    /\ UNCHANGED <<status_history, current_status, history_file, result>>
    /\ UNCHANGED <<registry, recorded>>
    /\ UNCHANGED readVars
SetLastCheck(maxClock) ==
    /\ pc = "set_time"
    /\ clock < maxClock
    /\ clock' = clock + 1
    /\ last_check_time' = isoformat(clock + 1)
    /\ pc' = "sleep"
    /\ UNCHANGED <<status_history, current_status, history_file, idx, result,
                   cycle>>
    /\ UNCHANGED <<registry, recorded>>
    /\ UNCHANGED readVars

\* time.sleep(UPDATE_INTERVAL), then the next pass of `while True`.
ExitsAfterCycle ==
    /\ pc = "sleep"
    /\ pc' = "exited"
    /\ UNCHANGED <<status_history, current_status, last_check_time,
                   history_file, clock, idx, result, cycle>>
    /\ UNCHANGED <<registry, recorded>>
    /\ UNCHANGED readVars
Sleep ==
    /\ pc = "sleep"
    /\ cycle' = cycle + 1
    /\ idx' = 1
    /\ pc' = ForLoopStart(registry)
    /\ UNCHANGED <<status_history, current_status, last_check_time,
                   history_file, clock, result>>
    /\ UNCHANGED <<registry, recorded>>
    /\ UNCHANGED readVars

\* ------------------------------------------- get_status / index ----
rnameSorted == registry[Len(registry) + 1 - ridx]
rname ==
    registry[ridx]

\* A request arrives: the handler starts building `data`.
Request ==
    /\ rpc = "idle"
    /\ rpc' = ComprehensionStart(registry)
    /\ data' = None
    /\ UNCHANGED <<ridx, sites, e_current, e_history, u_seen, u_i, u_count,
                   e_uptime, r_last_check>>
    /\ UNCHANGED schedVars

\* 'current': current_status.get(name, {})
ReadCurrent ==
    /\ rpc = "current"
    /\ e_current' = Get(current_status, rname, EmptyDict)
    /\ rpc' = "history"
    /\ UNCHANGED <<ridx, sites, e_history, u_seen, u_i, u_count, e_uptime,
                   r_last_check, data>>
    /\ UNCHANGED schedVars

\* 'history': status_history.get(name, []) is the list object itself when
\* the key is there ("live"), and a new empty list otherwise ("default").
ReadHistory ==
    /\ rpc = "history"
    /\ e_history' = IF rname \in DOMAIN status_history THEN "live" ELSE "default"
    /\ rpc' = "uptime"
    /\ UNCHANGED <<ridx, sites, e_current, u_seen, u_i, u_count, e_uptime,
                   r_last_check, data>>
    /\ UNCHANGED schedVars

\* The list a reference obtained earlier shows now.
Deref(ref, n) == IF ref = "live" THEN status_history[n] ELSE <<>>

\* 1 for x in history if x['status'] == 'up'
CountsDown(x) == IF x.status = "down" THEN 1 ELSE 0
UpTerm(x) ==
    IF x.status = "up" THEN 1 ELSE 0

\* int((up_count / len(history)) * 100); the float product truncates to
\* the integer quotient for every len(history) the program can reach.
PercentOfNext(up_count, n) == (up_count * 100) \div (n + 1)
Percent(up_count, n) ==
    (up_count * 100) \div n

\* calculate_uptime(name): history = status_history.get(name, []);
\* if not history: return 0
UptimeCall ==
    /\ rpc = "uptime"
    /\ LET history == Get(status_history, rname, <<>>)
       IN  /\ u_seen' = history
           /\ IF history = <<>>
              THEN /\ e_uptime' = 0
                   /\ rpc' = "store"
                   /\ UNCHANGED <<u_i, u_count>>
              ELSE /\ rpc' = "sum"
                   /\ u_i' = 1
                   /\ u_count' = 0
                   /\ UNCHANGED e_uptime
    /\ UNCHANGED <<ridx, sites, e_current, e_history, r_last_check, data>>
    /\ UNCHANGED schedVars

\* One step of sum(1 for x in history if x['status'] == 'up'): the list
\* iterator reads the list as it is now.
SumStep ==
    /\ rpc = "sum"
    /\ LET history == status_history[rname]
       IN  IF u_i <= Len(history)
           THEN /\ u_count' = u_count + UpTerm(history[u_i])
                /\ u_i' = u_i + 1
                /\ rpc' = rpc
           ELSE /\ rpc' = "len"
                /\ UNCHANGED <<u_i, u_count>>
    /\ UNCHANGED <<ridx, sites, e_current, e_history, u_seen, e_uptime,
                   r_last_check, data>>
    /\ UNCHANGED schedVars

\* return int((up_count / len(history)) * 100)
UptimeReturn ==
    /\ rpc = "len"
    /\ e_uptime' = Percent(u_count, Len(status_history[rname]))
    /\ rpc' = "store"
    /\ UNCHANGED <<ridx, sites, e_current, e_history, u_seen, u_i, u_count,
                   r_last_check, data>>
    /\ UNCHANGED schedVars

\* The entry of data['sites'] for `name` is stored, the frame of
\* calculate_uptime is gone, and the comprehension steps to the next site.
StoreEntry ==
    /\ rpc = "store"
    /\ sites' = Append(sites, [name |-> rname, current |-> e_current,
                               history |-> e_history, uptime |-> e_uptime])
    /\ e_current' = None
    /\ e_history' = "default"
    /\ e_uptime' = 0
    /\ u_seen' = <<>>
    /\ u_i' = 0
    /\ u_count' = 0
    /\ IF ridx = Len(registry)
       THEN rpc' = "last_check" /\ ridx' = ridx
       ELSE rpc' = "current" /\ ridx' = ridx + 1
    /\ UNCHANGED <<r_last_check, data>>
    /\ UNCHANGED schedVars

\* 'last_check': last_check_time
ReadLastCheck ==
    /\ rpc = "last_check"
    /\ r_last_check' = last_check_time
    /\ rpc' = "jsonify"
    /\ UNCHANGED <<ridx, sites, e_current, e_history, u_seen, u_i, u_count,
                   e_uptime, data>>
    /\ UNCHANGED schedVars

\* jsonify(data) / render_template: the lists referenced by `data` are
\* written out as they are at this moment, and the handler returns.
Payload ==
    [sites |-> [i \in DOMAIN sites |->
                  [name |-> sites[i].name,
                   current |-> sites[i].current,
                   history |-> Deref(sites[i].history, sites[i].name),
                   uptime |-> sites[i].uptime]],
     last_check |-> r_last_check]

Jsonify ==
    /\ rpc = "jsonify"
    /\ data' = <<Payload>>
    /\ rpc' = "idle"
    /\ ridx' = 1
    /\ sites' = <<>>
    /\ r_last_check' = None
    /\ UNCHANGED <<e_current, e_history, u_seen, u_i, u_count, e_uptime>>
    /\ UNCHANGED schedVars

\* ---------------------------------------------------- specifications ----
Next ==
    \/ Probe(CycleOutcomes, MaxClock)
    \/ SetCurrent
    \/ NewList
    \/ AppendResult
    \/ Trim
    \/ SetLastCheck(MaxClock)
    \/ Sleep
    \/ Request
    \/ ReadCurrent
    \/ ReadHistory
    \/ UptimeCall
    \/ SumStep
    \/ UptimeReturn
    \/ StoreEntry
    \/ ReadLastCheck
    \/ Jsonify

Spec == Init /\ [][Next]_vars

\* The monitor thread alone, over several cycles.
NextMonitor ==
    \/ Probe(MonitorOutcomes, MaxClock)
    \/ SetCurrent
    \/ NewList
    \/ AppendResult
    \/ Trim
    \/ SetLastCheck(MaxClock)
    \/ Sleep

SpecMonitor == Init /\ [][NextMonitor]_vars

\* The monitor thread is a daemon thread the interpreter keeps scheduling,
\* and every probe ends, by its response or by its timeout: a step of the
\* thread that can be taken is eventually taken.
SpecMonitorFair == Init /\ [][NextMonitor]_vars /\ WF_vars(NextMonitor)

\* The first cycle of the monitor thread alone, over every outcome of a
\* probe: one datetime.now() per site and one for last_check_time.
OneCycle == Len(SITES) + 1

NextProber ==
    \/ Probe(Outcomes, OneCycle)
    \/ SetCurrent
    \/ NewList
    \/ AppendResult
    \/ Trim
    \/ SetLastCheck(OneCycle)
    \/ Sleep

SpecProber == Init /\ [][NextProber]_vars

\* The program started with SITES = {}: the loop of monitor_loop and the
\* comprehension of get_status have nothing to iterate.
InitEmpty == InitWith(<<>>)

NextEmpty ==
    \/ SetLastCheck(MaxClock)
    \/ Sleep
    \/ Request
    \/ ReadLastCheck
    \/ Jsonify

SpecEmpty == InitEmpty /\ [][NextEmpty]_vars

\* ------------------------------------------------------------ claims ----
\* The monitor thread is inside the record step (lines 135-145) of site n:
\* it has begun to store `result` and has not yet trimmed the list.
InRecordStep(n) ==
    /\ pc \in {"new_list", "append", "trim"}
    /\ n = name

\* Some result of site n has been evicted: its oldest entry is not the
\* result of the first cycle.
Evicted(n) ==
    /\ n \in DOMAIN status_history
    /\ status_history[n] # <<>>
    /\ status_history[n][1].timestamp[1] > Len(SITES)

\* C1: whenever the monitor thread is not in the middle of a record step
\* for a site (between its append and its trim), that site's history holds
\* at most HISTORY_LENGTH results.
C1_HistoryBounded ==
    \A n \in DOMAIN status_history :
        ~InRecordStep(n) => Len(status_history[n]) <= HISTORY_LENGTH

C1_Witness ==
    /\ pc = "set_time"
    /\ Evicted(name)
    /\ Len(status_history[name]) = HISTORY_LENGTH

\* The site whose record step the monitor thread completed last, while
\* the local variable `result` still holds what was recorded (0: none).
JustRecorded ==
    IF pc \in {"set_time", "sleep"} THEN idx
    ELSE IF pc = "probe" /\ idx > 1 THEN idx - 1
    ELSE 0

\* C3: once the record step for a site has completed with result r, the
\* site's current status is r and the last element of its history is r;
\* and outside a record step every recorded site's current status equals
\* the last element of its history.
C3_RecordConsistent ==
    /\ JustRecorded > 0 =>
         LET n == SITES[JustRecorded]
         IN  /\ n \in DOMAIN current_status
             /\ n \in DOMAIN status_history
             /\ status_history[n] # <<>>
             /\ current_status[n] = result
             /\ Last(status_history[n]) = result
    /\ \A n \in DOMAIN current_status :
         ~InRecordStep(n) =>
             /\ n \in DOMAIN status_history
             /\ status_history[n] # <<>>
             /\ current_status[n] = Last(status_history[n])

C3_Witness ==
    /\ pc = "set_time"
    /\ Evicted(name)
    /\ current_status[name] = result
    /\ Last(status_history[name]) = result

\* Every site has been probed and recorded in the cycle now running: its
\* current status and the last element of its history are one result, whose
\* instant lies after the previous cycle's last_check_time.
CycleStart == (cycle - 1) * (Len(SITES) + 1)
RecordedThisCycle(n) ==
    /\ n \in DOMAIN current_status
    /\ n \in DOMAIN status_history
    /\ status_history[n] # <<>>
    /\ Last(status_history[n]) = current_status[n]
    /\ current_status[n].timestamp[1] > CycleStart
AllRecordedThisCycle ==
    \A i \in 1..Len(SITES) : RecordedThisCycle(SITES[i])

\* The number of cycles the monitor thread has completed.
CyclesCompleted == IF pc = "sleep" THEN cycle ELSE cycle - 1

\* C4: last_check_time changes only in the step that ends a cycle, after
\* every site has been probed and recorded in that cycle; it is None until
\* the first cycle completes, and after the k-th completed cycle it is the
\* instant at which that cycle ended (set once in each completed cycle).
C4_LastCheckOncePerCycle ==
    /\ [][last_check_time' # last_check_time =>
             /\ pc = "set_time"
             /\ pc' = "sleep"
             /\ AllRecordedThisCycle
             /\ last_check_time' = isoformat(clock')]_vars
    /\ [](last_check_time =
             IF CyclesCompleted = 0 THEN None
             ELSE isoformat(CyclesCompleted * (Len(SITES) + 1)))

C4_Witness ==
    /\ pc = "sleep"
    /\ cycle = 2
    /\ last_check_time = isoformat(2 * (Len(SITES) + 1))
    /\ AllRecordedThisCycle

\* What save() would write: the full state.
Snapshot ==
    [history |-> status_history, current |-> current_status,
     last_check |-> last_check_time]

\* C5: a cycle in which a probe failed still ends with every site probed
\* and recorded, last_check_time updated, and the snapshot persisted.
C5_PartialFailureIsolation ==
    (pc = "sleep" /\ \E n \in DOMAIN current_status :
                         current_status[n].status = "down") =>
        /\ AllRecordedThisCycle
        /\ last_check_time = isoformat(clock)
        /\ history_file # "absent"
        /\ history_file = Snapshot

\* A CheckResult: status, time and timestamp always, code and error optional.
IsCheckResult(r) ==
    /\ {"status", "time", "timestamp"} \subseteq DOMAIN r
    /\ DOMAIN r \subseteq {"status", "time", "code", "error", "timestamp"}
    /\ r.status \in {"up", "down"}
    /\ r.time >= 0

\* C6: every probe, whatever session.get did, hands the monitor thread a
\* CheckResult with status up or down: control continues at the statement
\* after the call, never in the loop's except clause.
C6_ProbeNeverRaises ==
    [][pc = "probe" /\ pc' # "probe" =>
          /\ pc' = "set_current"
          /\ IsCheckResult(result')
          /\ result'.timestamp = isoformat(clock')]_vars

C6_Witness ==
    /\ pc = "set_current"
    /\ "error" \in DOMAIN result
    /\ result.error = "SSLError"
    /\ result.status = "down"

\* The results the monitor thread holds: the one just probed and all
\* recorded ones.
HeldResults ==
    (IF pc = "probe" /\ clock = 0 THEN {} ELSE {result})
      \cup {current_status[n] : n \in DOMAIN current_status}
      \cup UNION {{status_history[n][k] : k \in 1..Len(status_history[n])} :
                    n \in DOMAIN status_history}

\* C7: a result that carries a response code has status up exactly when
\* the code is 200, 301 or 302, and with code 403 it is down with a
\* non-empty error.
C7_StatusClassification ==
    \A r \in HeldResults :
        "code" \in DOMAIN r =>
            /\ r.status = "up" <=> r.code \in {200, 301, 302}
            /\ r.code = 403 =>
                 /\ r.status = "down"
                 /\ "error" \in DOMAIN r
                 /\ r.error # ""

C7_Witness ==
    /\ pc = "set_time"
    /\ current_status[SITES[1]].status = "down"
    /\ "code" \in DOMAIN current_status[SITES[1]]
    /\ current_status[SITES[1]].code = 403
    /\ current_status[SITES[2]].status = "up"
    /\ current_status[SITES[2]].code = 302

\* C8: every result with status down carries a non-empty error string.
C8_DownHasError ==
    \A r \in HeldResults :
        r.status = "down" => ("error" \in DOMAIN r /\ r.error # "")

\* C2: no payload returned to a reader shows a site whose current status
\* and last history entry disagree (or a current status next to an empty
\* history, or a history next to the unknown placeholder).
C2_ReaderSeesConsistentSite ==
    data # None =>
        \A i \in DOMAIN data[1].sites :
            LET e == data[1].sites[i]
            IN  IF e.history = <<>>
                THEN DOMAIN e.current = {}
                ELSE /\ DOMAIN e.current # {}
                     /\ e.current = Last(e.history)

\* calculate_uptime has returned to get_status, and the list it was bound
\* to is now as it was when the call began: no record step ran into it.
UpCount(h) == Cardinality({k \in 1..Len(h) : h[k].status = "up"})
UptimeOfQuietCall ==
    /\ rpc = "store"
    /\ u_seen # <<>>
    /\ status_history[rname] = u_seen

\* C9 as stated: the uptime of a non-empty history is 100 * ups / length
\* rounded to one decimal place, that is, within 0.05 of the quotient.
C9_RoundedToOneDecimal ==
    UptimeOfQuietCall =>
        LET d == 1000 * UpCount(u_seen) - 10 * e_uptime * Len(u_seen)
        IN  2 * (IF d < 0 THEN -d ELSE d) <= Len(u_seen)

\* C9 amended: the uptime of a non-empty history is the integer part of
\* 100 * ups / length (75 for [up, down, up, up], 33 for one up of three).
C9_TruncatedToInteger ==
    UptimeOfQuietCall =>
        /\ e_uptime * Len(u_seen) <= 100 * UpCount(u_seen)
        /\ 100 * UpCount(u_seen) < (e_uptime + 1) * Len(u_seen)

C9_Witness ==
    /\ UptimeOfQuietCall
    /\ Len(u_seen) = 3
    /\ UpCount(u_seen) = 1
    /\ e_uptime = 33

\* C10: the uptime of an empty history, and of a site never probed, is 0;
\* the uptime of a non-empty history of up results only is 100.
C10_UptimeExtremes ==
    /\ (rpc = "store" /\ u_seen = <<>>) => e_uptime = 0
    /\ (UptimeOfQuietCall /\ UpCount(u_seen) = Len(u_seen)) => e_uptime = 100

C10_Witness ==
    /\ UptimeOfQuietCall
    /\ ridx = 2
    /\ sites[1].history = "default"
    /\ sites[1].uptime = 0
    /\ Len(u_seen) = HISTORY_LENGTH
    /\ UpCount(u_seen) = Len(u_seen)
    /\ e_uptime = 100

\* C11: once a cycle has completed, the durable snapshot holds the full
\* state {history, current, last_check}, so that loading it at process
\* start gives that state back (the histories, at most HISTORY_LENGTH long
\* between cycles, need no truncation).
C11_SnapshotAfterEveryCycle ==
    (pc = "sleep" /\ last_check_time # None) =>
        /\ history_file # "absent"
        /\ history_file = Snapshot

\* calculate_uptime applied to a list that nothing modifies meanwhile.
UptimeOf(h) == IF h = <<>> THEN 0 ELSE Percent(UpCount(h), Len(h))

\* C12: in every payload returned to a reader, the uptime of each site is
\* the uptime of the history the same payload carries for that site.
C12_PayloadUptimeMatchesHistory ==
    data # None =>
        \A i \in DOMAIN data[1].sites :
            data[1].sites[i].uptime = UptimeOf(data[1].sites[i].history)

\* C13: no payload returned to a reader carries a history longer than
\* HISTORY_LENGTH.
C13_PayloadHistoryBounded ==
    data # None =>
        \A i \in DOMAIN data[1].sites :
            Len(data[1].sites[i].history) <= HISTORY_LENGTH

\* C14: the monitor thread begins a cycle (its first probe of SITES) only
\* from time.sleep and from nowhere else, so never while a cycle is still
\* probing; it enters time.sleep only at the end of a cycle (after
\* last_check_time is set, or from the loop's except clause); and every
\* sleep is followed by the start of exactly the next cycle.
C14_OneSleepBetweenCycles ==
    /\ [][(cycle' # cycle \/
           (pc' = "probe" /\ idx' = 1 /\ ~(pc = "probe" /\ idx = 1))) =>
             /\ pc = "sleep"
             /\ pc' = "probe"
             /\ idx' = 1
             /\ cycle' = cycle + 1]_vars
    /\ [][(pc' = "sleep" /\ pc # "sleep") => pc \in {"set_time", "probe"}]_vars
    /\ [][(pc = "sleep" /\ pc' # "sleep") => cycle' = cycle + 1]_vars

C14_Witness ==
    /\ cycle = 2
    /\ pc = "set_current"
    /\ idx = 1
    /\ last_check_time = isoformat(Len(SITES) + 1)

\* The number of whole cycles the clock of the model has room for.
FullCycles == MaxClock \div (Len(SITES) + 1)
\* The cycle now running can still be completed before the clock stops.
RoomToFinish == clock + (Len(SITES) - idx) + 1 <= MaxClock

\* C15: under fairness of the monitor thread, a failed probe is followed by
\* the end of its cycle, every sleep is followed by the first probe of the
\* next cycle, and every cycle the clock has room for is completed,
\* whatever the probes return.
C15_LoopKeepsRunning ==
    /\ (pc = "set_current" /\ result.status = "down" /\ RoomToFinish)
          ~> (pc = "sleep")
    /\ \A k \in 1..FullCycles :
          (pc = "sleep" /\ cycle = k /\ clock < MaxClock)
             ~> (cycle = k + 1 /\ pc = "set_current" /\ idx = 1)
    /\ \A k \in 1..FullCycles : <>(cycle = k /\ pc = "sleep")

C15_Witness ==
    /\ cycle = 2
    /\ pc = "set_current"
    /\ idx = 1
    /\ current_status[SITES[1]].status = "down"
    /\ current_status[SITES[2]].status = "down"

\* The sites recorded so far in the cycle now running are exactly those
\* before the site the monitor thread is at.
ProbedInRegistryOrder ==
    \A j \in 1..Len(SITES) :
        /\ (j < idx \/ pc \in {"set_time", "sleep"}) =>
               RecordedThisCycle(SITES[j])
        /\ (j > idx /\ pc \notin {"set_time", "sleep"}) =>
               ~RecordedThisCycle(SITES[j])

\* C16: within a cycle the sites are probed and recorded in the order of
\* SITES, and the entries get_status builds for data['sites'] are those of
\* SITES in the same order: the complete dictionary names all sites, in
\* that order, whichever of them have been probed.  (The order in which
\* jsonify writes the keys of that dictionary is the web framework's.)
C16_RegistryOrder ==
    /\ ProbedInRegistryOrder
    /\ \A i \in DOMAIN sites : i <= Len(SITES) /\ sites[i].name = SITES[i]
    /\ rpc \in {"last_check", "jsonify"} => Len(sites) = Len(SITES)

C16_Witness ==
    /\ rpc = "jsonify"
    /\ Len(sites) = Len(SITES)
    /\ sites[1].history = "live"
    /\ DOMAIN sites[1].current # {}
    /\ sites[2].history = "default"
    /\ DOMAIN sites[2].current = {}
    /\ pc = "set_current"
    /\ idx = 2

\* C17: with an empty registry the monitor thread never completes a cycle
\* that sets last_check_time, and no payload with an empty list of sites
\* is returned to a reader.
C17_EmptyRegistryFailsFast ==
    registry = <<>> =>
        /\ last_check_time = None
        /\ data # None => data[1].sites # <<>>

Min(a, b) == IF a < b THEN a ELSE b
SiteIndex(n) == CHOOSE i \in 1..Len(SITES) : SITES[i] = n
\* The instant of the probe of site i in cycle c, which stamps the c-th
\* result recorded for that site.
ProbeInstant(i, c) == (c - 1) * (Len(SITES) + 1) + i

\* C18: outside a record step, after k results have been recorded for a
\* site its history is the last min(k, HISTORY_LENGTH) of them, oldest
\* first: entry j is the result number k - len + j, and the newest entry
\* is the site's current status.
C18_HistoryIsLastResultsInOrder ==
    \A n \in DOMAIN recorded :
        ~InRecordStep(n) =>
            LET k == recorded[n]
                h == status_history[n]
            IN  /\ Len(h) = Min(k, HISTORY_LENGTH)
                /\ \A j \in 1..Len(h) :
                       h[j].timestamp =
                           isoformat(ProbeInstant(SiteIndex(n), k - Len(h) + j))
                /\ h[Len(h)] = current_status[n]

C18_Witness ==
    /\ pc = "sleep"
    /\ \A i \in 1..Len(SITES) :
           /\ SITES[i] \in DOMAIN recorded
           /\ recorded[SITES[i]] = HISTORY_LENGTH + 1
           /\ Len(status_history[SITES[i]]) = HISTORY_LENGTH
           /\ status_history[SITES[i]][1].timestamp =
                  isoformat(ProbeInstant(i, 2))

\* C19: whenever last_check_time is set, every site of SITES has a
\* non-empty history and a current status that is a CheckResult.
C19_LastCheckImpliesAllProbed ==
    last_check_time # None =>
        \A i \in 1..Len(SITES) :
            /\ SITES[i] \in DOMAIN status_history
            /\ status_history[SITES[i]] # <<>>
            /\ SITES[i] \in DOMAIN current_status
            /\ IsCheckResult(current_status[SITES[i]])

C19_Witness ==
    /\ last_check_time = isoformat(Len(SITES) + 1)
    /\ pc = "sleep"
    /\ cycle = 1
    /\ \A i \in 1..Len(SITES) : Len(status_history[SITES[i]]) = 1

\* The number of results recorded so far for the i-th site.
RecordedCount(i) == Get(recorded, SITES[i], 0)

\* C20: every site has one result per completed cycle and at most one more
\* for the cycle now running; a site earlier in SITES has as many results
\* as a later one or exactly one more; and while the monitor thread sleeps
\* between cycles all sites have as many results as cycles have run, and
\* histories of min(cycles, HISTORY_LENGTH) entries.
C20_OneResultPerSitePerCycle ==
    /\ \A i \in 1..Len(SITES) : RecordedCount(i) \in {cycle - 1, cycle}
    /\ \A i, j \in 1..Len(SITES) :
           i < j => RecordedCount(i) - RecordedCount(j) \in {0, 1}
    /\ pc = "sleep" =>
           \A i \in 1..Len(SITES) :
               /\ RecordedCount(i) = cycle
               /\ Len(status_history[SITES[i]]) = Min(cycle, HISTORY_LENGTH)

C20_Witness ==
    /\ pc = "trim"
    /\ cycle = HISTORY_LENGTH + 1
    /\ idx = 1
    /\ RecordedCount(1) = cycle
    /\ RecordedCount(2) = cycle - 1

====
